---- MODULE Spec2Model ----
(***************************************************************************)
(* pictomap: scan_images (EXIF -> reverse geocoding with a run-scoped      *)
(* cache -> per-folder dedup) followed by generate_summary                 *)
(* (country -> city -> distinct visit days), as in src/main.py.            *)
(*                                                                         *)
(* Python values are modelled as follows.                                  *)
(*   str        a sequence of character codes (compared as Python does,    *)
(*              code point by code point)                                  *)
(*   dict       a function (location components) or, where the insertion   *)
(*              order is observable, a sequence of entries                 *)
(*   datetime   a record year/month/day/hour/minute/second                 *)
(*   float      a coordinate in hundredths of a degree                     *)
(***************************************************************************)
EXTENDS Integers, Sequences, FiniteSets, TLC

\* None of Python. It is only ever tested for truth or compared with values
\* that are non-empty (a datetime, a coordinate pair, a components dict with
\* at least one key, a non-empty string), so it shares the representation of
\* the other falsy values '' and {}.
None == <<>>
Truthy(x) == x # <<>>

----------------------------------------------------------------------------
(* Strings.                                                                *)

\* 'Unknown'
Unknown == <<85, 110, 107, 110, 111, 119, 110>>

\* Place names the resolver can return.
Paris  == <<80, 97, 114, 105, 115>>
Issy   == <<73, 115, 115, 121>>
France == <<70, 114, 97, 110, 99, 101>>
USA    == <<85, 83, 65>>
Qatar  == <<81, 97, 116, 97, 114>>

Min2(a, b) == IF a < b THEN a ELSE b

\* s < t on Python strings: the first differing code decides, a proper
\* prefix is smaller.
StrLess(s, t) ==
    LET n == Min2(Len(s), Len(t))
        diff == {i \in 1..n : s[i] # t[i]}
    IN  IF diff = {}
        THEN Len(s) < Len(t)
        ELSE LET i == CHOOSE j \in diff : \A k \in diff : j <= k
             IN  s[i] < t[i]

\* Zero-padded decimal digits of n, width w, as character codes.
RECURSIVE Pad(_, _)
Pad(n, w) == IF w = 0 THEN <<>> ELSE Append(Pad(n \div 10, w - 1), 48 + (n % 10))

\* The number written by the digit codes s[a..b].
RECURSIVE Num(_, _, _)
Num(s, a, b) == IF b < a THEN 0 ELSE 10 * Num(s, a, b - 1) + (s[b] - 48)

----------------------------------------------------------------------------
(* datetime.                                                               *)

\* Whether the C library's strftime, which datetime.strftime calls, writes
\* %Y zero-padded to four digits (as on Windows and macOS) or not (as
\* glibc does). It is a property of the build, the same for a whole run.
VARIABLE strftime_pads_year

\* The number of decimal digits of a year.
Width(n) == IF n < 10 THEN 1 ELSE IF n < 100 THEN 2 ELSE IF n < 1000 THEN 3 ELSE 4

\* '%Y' of strftime.
StrftimeYear(year) == IF strftime_pads_year THEN Pad(year, 4) ELSE Pad(year, Width(year))

\* date_taken.strftime('%Y-%m-%d')
StrftimeDate(dt) ==
    StrftimeYear(dt.year) \o <<45>> \o Pad(dt.month, 2) \o <<45>> \o Pad(dt.day, 2)

\* date_taken.strftime('%H:%M:%S')
StrftimeTime(dt) == Pad(dt.hour, 2) \o <<58>> \o Pad(dt.minute, 2) \o <<58>> \o Pad(dt.second, 2)

\* datetime.strptime(d + ' ' + t, '%Y-%m-%d %H:%M:%S'); a string of another
\* shape raises ValueError, modelled as the value None.
StrptimeDateTime(d, t) ==
    IF \/ Len(d) # 10
       \/ Len(t) # 8
       \/ (\E i \in {1, 2, 3, 4, 6, 7, 9, 10} : d[i] \notin 48..57)
       \/ (\E k \in {1, 2, 4, 5, 7, 8} : t[k] \notin 48..57)
    THEN None
    ELSE [year |-> Num(d, 1, 4), month |-> Num(d, 6, 7), day |-> Num(d, 9, 10),
          hour |-> Num(t, 1, 2), minute |-> Num(t, 4, 5), second |-> Num(t, 7, 8)]

\* datetime.strptime(date, '%Y-%m-%d')
StrptimeDate(d) == StrptimeDateTime(d, <<48, 48, 58, 48, 48, 58, 48, 48>>)

\* a < b on datetimes: chronological.
DtKey(a) == <<a.year, a.month, a.day, a.hour, a.minute, a.second>>
DtLess(a, b) ==
    \E i \in 1..6 : /\ DtKey(a)[i] < DtKey(b)[i]
                    /\ \A j \in 1..(i - 1) : DtKey(a)[j] = DtKey(b)[j]

----------------------------------------------------------------------------
(* Inputs: what the metadata reader and the resolver can deliver.          *)

\* Number of images in image_paths.
MaxImages == 2

\* get_location(..., retries=3, delay=1)
retries == 3

\* scan_images(directory, precision=1)
precision == 1

\* Folder names 'A', 'B' (os.path.basename(os.path.dirname(image_path))).
Folders == {<<65>>, <<66>>}

\* EXIF DateTimeOriginal values: two days across a year boundary, two
\* times of day, and a timestamp with a year below 1000, which line 75
\* parses like any other ('0999:12:31 08:00:00').
Day1Late  == [year |-> 2023, month |-> 12, day |-> 31, hour |-> 14, minute |-> 0, second |-> 0]
Day1Early == [year |-> 2023, month |-> 12, day |-> 31, hour |-> 8, minute |-> 0, second |-> 0]
Day2      == [year |-> 2024, month |-> 1, day |-> 1, hour |-> 8, minute |-> 0, second |-> 0]
Year999   == [year |-> 999, month |-> 12, day |-> 31, hour |-> 8, minute |-> 0, second |-> 0]
DateTimes == {Day1Late, Day1Early, Day2, Year999}

\* GPS pairs (lat, lon) in hundredths of a degree. The first two round to
\* the same key at precision 1.
Raws == {<<4884, 231>>, <<4876, 234>>, <<3366, -9556>>, <<2529, 5153>>, <<0, 0>>}

\* results[0]['components'] of the resolver for a raw coordinate pair. A
\* components dict need not carry 'city' or 'country'.
PlaceAt(raw) ==
    CASE raw = <<4884, 231>>   -> [city |-> Paris, country |-> France]
      [] raw = <<4876, 234>>   -> [city |-> Issy, country |-> France]
      [] raw = <<3366, -9556>> -> [city |-> Paris, country |-> USA]
      [] raw = <<2529, 5153>>  -> [country |-> Qatar]
      [] OTHER                 -> [body_of_water |-> <<65>>]

\* What one geocoder.reverse_geocode call does: a non-empty result list,
\* an empty one, or an exception.
Outcomes == {"ok", "empty", "exc"}

\* dict.get(k, default)
Get(d, k, default) == IF k \in DOMAIN d THEN d[k] ELSE default

----------------------------------------------------------------------------
(* round_coordinates.                                                      *)

RECURSIVE Pow10(_)
Pow10(n) == IF n = 0 THEN 1 ELSE 10 * Pow10(n - 1)

\* round(x, p) for x in hundredths of a degree, result in hundredths:
\* nearest multiple of 10^(2-p), ties to even.
Round(x, p) ==
    LET u == Pow10(2 - p)
        q == x \div u
        r == x % u
    IN  IF 2 * r < u THEN q * u
        ELSE IF 2 * r > u THEN (q + 1) * u
        ELSE IF q % 2 = 0 THEN q * u ELSE (q + 1) * u

round_coordinates(lat, lon, p) == <<Round(lat, p), Round(lon, p)>>

----------------------------------------------------------------------------
(* get_location.                                                           *)

AttemptError(lat, lon, attempt) ==
    [kind |-> "attempt", coordinates |-> <<lat, lon>>, attempt |-> attempt]
TerminalError(lat, lon) ==
    [kind |-> "terminal", coordinates |-> <<lat, lon>>, attempt |-> 0]

\* The for loop from attempt number i on; att[i] is what the i-th
\* reverse_geocode call does. Returns the components (or None), the
\* updated geocoder_timeout_count and error_messages, and the number of
\* reverse_geocode calls made.
RECURSIVE AttemptsFrom(_, _, _, _, _, _)
AttemptsFrom(i, lat, lon, count, msgs, att) ==
    IF i > retries
    THEN [info |-> None, count |-> count,
          msgs |-> Append(msgs, TerminalError(lat, lon)), calls |-> i - 1]
    ELSE IF att[i] = "ok"
    THEN [info |-> PlaceAt(<<lat, lon>>), count |-> count, msgs |-> msgs, calls |-> i]
    ELSE IF att[i] = "empty"
    THEN AttemptsFrom(i + 1, lat, lon, count, msgs, att)
    ELSE AttemptsFrom(i + 1, lat, lon, count + 1,
                      Append(msgs, AttemptError(lat, lon, i)), att)

\* get_location with the final return indented into the loop body: the
\* first attempt that yields nothing ends the call.
get_location_noRetry(lat, lon, geocoder_timeout_count, error_messages, att) ==
    IF att[1] = "ok"
    THEN [info |-> PlaceAt(<<lat, lon>>), count |-> geocoder_timeout_count,
          msgs |-> error_messages, calls |-> 1]
    ELSE IF att[1] = "empty"
    THEN [info |-> None, count |-> geocoder_timeout_count,
          msgs |-> Append(error_messages, TerminalError(lat, lon)), calls |-> 1]
    ELSE [info |-> None, count |-> geocoder_timeout_count + 1,
          msgs |-> Append(Append(error_messages, AttemptError(lat, lon, 1)),
                          TerminalError(lat, lon)),
          calls |-> 1]

\* get_location without line 68: a call that gives up says nothing.
get_location_silent(lat, lon, geocoder_timeout_count, error_messages, att) ==
    LET r == AttemptsFrom(1, lat, lon, geocoder_timeout_count, error_messages, att)
    IN  IF r.info = None
        THEN [r EXCEPT !.msgs = SubSeq(r.msgs, 1, Len(r.msgs) - 1)]
        ELSE r
get_location(lat, lon, geocoder_timeout_count, error_messages, att) ==
    AttemptsFrom(1, lat, lon, geocoder_timeout_count, error_messages, att)

----------------------------------------------------------------------------
(* State of one run: scan_images' locals, then generate_summary's result.  *)

VARIABLES
    OPENCAGE_API_KEY,        \* os.getenv('OPENCAGE_API_KEY'): 'key' or None
    pc,                      \* "scan": in the for loop; "scanned": scan_images
                             \* returned; "done": generate_summary returned;
                             \* "crashed": an exception left scan_images
    results,                 \* dict folder -> list of entries, as a sequence
                             \* of [name, images] in insertion order
    location_cache,          \* dict rounded_gps -> components
    error_messages,
    processed_files,
    geocoder_count,
    geocoder_error_count,
    geocoder_timeout_count,
    extracted_exif_count,
    exif_error_count,
    gps,                     \* the loop body's locals, as the last
    date_taken,              \* iteration left them
    location_info,
    summary_data,            \* generate_summary(image_data), None before
    resolver_calls,          \* history: get_location calls per rounded_gps
    assigned,                \* history: <<rounded_gps, location_info>> of
                             \* every image whose lookup completed
    resolved,                \* history: [folder, date_taken, entry] of the
                             \* images that passed the city-or-country test
    get_location_log         \* history: [lat, lon, att, calls, info] of the
                             \* get_location calls that returned, in order

vars == <<OPENCAGE_API_KEY, strftime_pads_year, pc, results, location_cache, error_messages,
          processed_files, geocoder_count, geocoder_error_count,
          geocoder_timeout_count, extracted_exif_count, exif_error_count,
          gps, date_taken, location_info, summary_data,
          resolver_calls, assigned, resolved, get_location_log>>

Keys == {round_coordinates(r[1], r[2], precision) : r \in Raws}

\* Attempt patterns of one get_location call; what the resolver would do
\* after the first "ok" is never observed.
Attempts ==
    {att \in [1..retries -> Outcomes] :
        \A i, j \in 1..retries : (i < j /\ att[i] = "ok") => att[j] = "ok"}

\* With no API key every request is refused.
Refused == [i \in 1..retries |-> "exc"]

----------------------------------------------------------------------------
(* The dedup step of the loop body (lines 294-327).                        *)

Range(s) == {s[i] : i \in 1..Len(s)}

\* Index of folder `name` in results, 0 when absent.
FolderIndex(res, name) ==
    IF \E i \in 1..Len(res) : res[i].name = name
    THEN CHOOSE i \in 1..Len(res) : res[i].name = name
    ELSE 0

\* results[folder_name], [] when the folder has no list yet.
ImagesOf(res, name) ==
    IF FolderIndex(res, name) = 0 THEN <<>> ELSE res[FolderIndex(res, name)].images

\* A lookup that leaves images without a date out of the dedup.
existing_entry_dated(images, date_str, city) ==
    LET hits == {i \in 1..Len(images) :
                    /\ date_str # Unknown
                    /\ images[i].date = date_str /\ images[i].city = city}
    IN  IF hits = {} THEN 0 ELSE CHOOSE i \in hits : \A j \in hits : i <= j

\* next((entry for entry in results[folder_name] if entry['date'] ==
\* date_str and entry['city'] == city), None), as an index; 0 for None.
existing_entry(images, date_str, city) ==
    LET hits == {i \in 1..Len(images) :
                    images[i].date = date_str /\ images[i].city = city}
    IN  IF hits = {} THEN 0 ELSE CHOOSE i \in hits : \A j \in hits : i <= j

\* The entry built from the current image (lines 295-299, 320-327).
\* Lines 296-327 with time_str never taken from the timestamp.
NewEntry_noTime(filename, dt, info, g) ==
    [filename    |-> filename,
     date        |-> IF Truthy(dt) THEN StrftimeDate(dt) ELSE Unknown,
     time        |-> Unknown,
     city        |-> Get(info, "city", Unknown),
     country     |-> Get(info, "country", Unknown),
     coordinates |-> g]
NewEntry(filename, dt, info, g) ==
    [filename    |-> filename,
     date        |-> IF Truthy(dt) THEN StrftimeDate(dt) ELSE Unknown,
     time        |-> IF Truthy(dt) THEN StrftimeTime(dt) ELSE Unknown,
     city        |-> Get(info, "city", Unknown),
     country     |-> Get(info, "country", Unknown),
     coordinates |-> g]

\* Line 309: both dates are valid.
BothDated(dt, existing) == Truthy(dt) /\ existing.date # Unknown

\* Line 310, once line 309 let it through: strptime of the existing
\* entry's date and time raises ValueError.
ParseRaises(dt, existing) ==
    BothDated(dt, existing) /\ StrptimeDateTime(existing.date, existing.time) = None

\* The comparison of line 310 turned round: the later image wins.
ShouldReplace_later(dt, existing) ==
    /\ BothDated(dt, existing)
    /\ DtLess(StrptimeDateTime(existing.date, existing.time), dt)

\* Line 309 letting an image without a date replace what is there.
ShouldReplace_undated(dt, existing) ==
    \/ ~Truthy(dt)
    \/ /\ BothDated(dt, existing)
       /\ DtLess(dt, StrptimeDateTime(existing.date, existing.time))

\* Lines 309-310: replace if the new image is earlier and both dates are
\* valid.
ShouldReplace(dt, existing) ==
    /\ BothDated(dt, existing)
    /\ DtLess(dt, StrptimeDateTime(existing.date, existing.time))

\* results[folder_name] after lines 306-327.
\* Lines 306-327 with the replacement done by removing the later entry
\* and never putting the earlier one in its place.
AddToFolder_remove(images, new, dt) ==
    LET i == existing_entry(images, new.date, new.city)
    IN  IF i = 0 THEN Append(images, new)
        ELSE IF ShouldReplace(dt, images[i])
        THEN SubSeq(images, 1, i - 1) \o SubSeq(images, i + 1, Len(images))
        ELSE images
AddToFolder(images, new, dt) ==
    LET i == existing_entry(images, new.date, new.city)
    IN  IF i = 0 THEN Append(images, new)
        ELSE IF ShouldReplace(dt, images[i]) THEN [images EXCEPT ![i] = new]
        ELSE images

\* results after lines 301-327.
AddToResults(res, name, new, dt) ==
    LET k == FolderIndex(res, name)
    IN  IF k = 0
        THEN Append(res, [name |-> name, images |-> AddToFolder(<<>>, new, dt)])
        ELSE [res EXCEPT ![k].images = AddToFolder(res[k].images, new, dt)]

\* Line 294 without the city-or-country test: any non-empty components pass.
HasPlace_any(info) == Truthy(info)
\* Line 294: only images with either city or country.
HasPlace(info) ==
    Truthy(info) /\ (Truthy(Get(info, "city", None)) \/ Truthy(Get(info, "country", None)))

----------------------------------------------------------------------------
(* sorted() and list.sort(): stable, by a key.                             *)

\* The key order is handed over as the set of pairs <<i, j>> of positions
\* of the list with key(s[i]) < key(s[j]).
\* t holds positions in sorted order; x goes after every position whose
\* key is not greater.
InsertBy(t, x, less) ==
    LET pos == {j \in 1..Len(t) : <<x, t[j]>> \in less}
        k   == IF pos = {} THEN Len(t) + 1 ELSE CHOOSE j \in pos : \A h \in pos : j <= h
    IN  SubSeq(t, 1, k - 1) \o <<x>> \o SubSeq(t, k, Len(t))

SortBy(s, less) ==
    LET F[i \in 0..Len(s)] == IF i = 0 THEN <<>> ELSE InsertBy(F[i - 1], i, less)
    IN  [k \in 1..Len(s) |-> s[F[Len(s)][k]]]

\* Pairs of positions of s.
Pairs(s) == (1..Len(s)) \X (1..Len(s))

\* key=lambda x: (x['date'], x['time'])
\* The key of lines 330-331 without the date: x['time'] alone.
DateTimeKeyLess_timeOnly(a, b) == StrLess(a.time, b.time)
DateTimeKeyLess(a, b) ==
    \/ StrLess(a.date, b.date)
    \/ a.date = b.date /\ StrLess(a.time, b.time)

\* Lines 329-331 and 344-350: every folder's list sorted, in the array
\* form the output carries.
SortFolders(res) ==
    [k \in 1..Len(res) |->
        [name |-> res[k].name, images |-> SortBy(res[k].images,
                            {p \in Pairs(res[k].images) :
                                DateTimeKeyLess(res[k].images[p[1]], res[k].images[p[2]])})]]

----------------------------------------------------------------------------
(* count_days_in_cities and generate_summary.                              *)

\* All entries of data['folders'], in iteration order.
AllImages(folders) ==
    LET F[k \in 0..Len(folders)] ==
            IF k = 0 THEN <<>> ELSE F[k - 1] \o folders[k].images
    IN  F[Len(folders)]

\* Line 104.
\* Line 104 without the city test.
Qualifies_anyCity(image) ==
    image.country # Unknown /\ image.date # Unknown
Qualifies(image) ==
    image.city # Unknown /\ image.country # Unknown /\ image.date # Unknown

\* country_city_days[country][city].add(date) on the nested defaultdict,
\* kept as a sequence of [country, cities], cities a sequence of
\* [city, dates], both in insertion order.
AddDate(ccd, country, city, date) ==
    LET ci == IF \E i \in 1..Len(ccd) : ccd[i].country = country
              THEN CHOOSE i \in 1..Len(ccd) : ccd[i].country = country
              ELSE 0
        withCountry == IF ci = 0
                       THEN Append(ccd, [country |-> country, cities |-> <<>>])
                       ELSE ccd
        c  == IF ci = 0 THEN Len(withCountry) ELSE ci
        cs == withCountry[c].cities
        ti == IF \E i \in 1..Len(cs) : cs[i].city = city
              THEN CHOOSE i \in 1..Len(cs) : cs[i].city = city
              ELSE 0
        cs2 == IF ti = 0
               THEN Append(cs, [city |-> city, dates |-> {date}])
               ELSE [cs EXCEPT ![ti].dates = @ \cup {date}]
    IN  [withCountry EXCEPT ![c].cities = cs2]

\* Lines 96-105.
country_city_days(folders) ==
    LET imgs == AllImages(folders)
        F[k \in 0..Len(imgs)] ==
            IF k = 0 THEN <<>>
            ELSE IF Qualifies(imgs[k])
                 THEN AddDate(F[k - 1], imgs[k].country, imgs[k].city, imgs[k].date)
                 ELSE F[k - 1]
    IN  F[Len(imgs)]

\* min(...) of datetimes.
MinDt(S) == CHOOSE d \in S : \A e \in S : ~DtLess(e, d)

\* The minimum taken over the first city's dates only.
FirstVisit_firstCity(cities) ==
    MinDt({StrptimeDate(date) : date \in cities[1].dates})

\* Line 112.
FirstVisit(cities) ==
    MinDt({StrptimeDate(date) : date \in UNION {cities[i].dates : i \in 1..Len(cities)}})

\* Days counted per entry instead of per distinct date.
count_days_in_cities_perEntry(folders) ==
    LET ccd  == country_city_days(folders)
        imgs == AllImages(folders)
    IN  [c \in 1..Len(ccd) |->
            [country          |-> ccd[c].country,
             first_visit_date |-> FirstVisit(ccd[c].cities),
             city_days_count  |-> [i \in 1..Len(ccd[c].cities) |->
                                     [city |-> ccd[c].cities[i].city,
                                      days |-> Cardinality(
                                          {k \in 1..Len(imgs) :
                                              /\ Qualifies(imgs[k])
                                              /\ imgs[k].country = ccd[c].country
                                              /\ imgs[k].city = ccd[c].cities[i].city})]]]]

\* Lines 107-115.
count_days_in_cities(folders) ==
    LET ccd == country_city_days(folders)
    IN  [c \in 1..Len(ccd) |->
            [country          |-> ccd[c].country,
             first_visit_date |-> FirstVisit(ccd[c].cities),
             city_days_count  |-> [i \in 1..Len(ccd[c].cities) |->
                                     [city |-> ccd[c].cities[i].city,
                                      days |-> Cardinality(ccd[c].cities[i].dates)]]]]

\* key=lambda x: -x[1], the name left out of the key.
CityKeyLess_visitsOnly(a, b) == a.days > b.days

\* key=lambda x: (-x[1], x[0])
CityKeyLess(a, b) ==
    \/ a.days > b.days
    \/ a.days = b.days /\ StrLess(a.city, b.city)

\* key=lambda x: x["name"], the date left out of the key.
CountryKeyLess_nameOnly(a, b) == StrLess(a.name, b.name)

\* key=lambda x: x["first_visit_date"], the name left out of the key.
CountryKeyLess_dateOnly(a, b) == StrLess(a.first_visit_date, b.first_visit_date)

\* key=lambda x: (x["first_visit_date"], x["name"])
CountryKeyLess(a, b) ==
    \/ StrLess(a.first_visit_date, b.first_visit_date)
    \/ a.first_visit_date = b.first_visit_date /\ StrLess(a.name, b.name)

\* Lines 123-141.
CountryObj(entry) ==
    LET items == entry.city_days_count
        sorted_cities == SortBy(items, {p \in Pairs(items) :
                                          CityKeyLess(items[p[1]], items[p[2]])})
    IN  [name             |-> entry.country,
         first_visit_date |-> StrftimeDate(entry.first_visit_date),
         cities           |-> [i \in 1..Len(sorted_cities) |->
                                 [name   |-> sorted_cities[i].city,
                                  visits |-> sorted_cities[i].days]]]

\* Lines 117-151; the value of output_data["countries"].
generate_summary(folders) ==
    LET counts == count_days_in_cities(folders)
        countries_data == [c \in 1..Len(counts) |-> CountryObj(counts[c])]
    IN  SortBy(countries_data,
               {p \in Pairs(countries_data) :
                   CountryKeyLess(countries_data[p[1]], countries_data[p[2]])})

----------------------------------------------------------------------------
(* scan_images.                                                            *)

Init ==
    /\ OPENCAGE_API_KEY \in {<<107, 101, 121>>, None}
    /\ strftime_pads_year \in BOOLEAN
    /\ pc = "scan"
    /\ results = <<>>
    /\ location_cache = <<>>
    /\ error_messages = <<>>
    /\ processed_files = 0
    /\ geocoder_count = 0
    /\ geocoder_error_count = 0
    /\ geocoder_timeout_count = 0
    /\ extracted_exif_count = 0
    /\ exif_error_count = 0
    /\ gps = None
    /\ date_taken = None
    /\ location_info = None
    /\ summary_data = None
    /\ resolver_calls = [k \in Keys |-> 0]
    /\ assigned = {}
    /\ resolved = {}
    /\ get_location_log = <<>>

\* os.path.basename(image_path) of the n-th image: 'i' and two digits.
Filename(n) == <<105>> \o Pad(n, 2)

\* Lines 285-286: store in cache.
CacheStore(cache, key, info) ==
    IF Truthy(info)
    THEN [k \in DOMAIN cache \cup {key} |-> IF k = key THEN info ELSE cache[k]]
    ELSE cache

\* Lines 272-275: the metadata reader raised.
ExifFailure ==
    /\ processed_files' = processed_files + 1
    /\ exif_error_count' = exif_error_count + 1
    /\ error_messages' = Append(error_messages,
                                [kind |-> "exif", filename |-> Filename(processed_files + 1)])
    /\ UNCHANGED <<OPENCAGE_API_KEY, strftime_pads_year, pc, results, location_cache, geocoder_count,
                   geocoder_error_count, geocoder_timeout_count, extracted_exif_count,
                   gps, date_taken, location_info, summary_data, resolver_calls,
                   assigned, resolved, get_location_log>>

\* Lines 288-291: OpenCageGeocode(OPENCAGE_API_KEY) raised inside
\* get_location, before the retry loop.
GeocoderError(g, dt) ==
    /\ gps' = g
    /\ date_taken' = dt
    /\ location_info' = None
    /\ processed_files' = processed_files + 1
    /\ extracted_exif_count' = extracted_exif_count + 1
    /\ geocoder_error_count' = geocoder_error_count + 1
    /\ error_messages' = Append(error_messages,
                                [kind |-> "geocoder", filename |-> Filename(processed_files + 1)])
    /\ UNCHANGED <<OPENCAGE_API_KEY, strftime_pads_year, pc, results, location_cache, geocoder_count,
                   geocoder_timeout_count, exif_error_count, summary_data,
                   resolver_calls, assigned, resolved, get_location_log>>

\* Lines 294-327 for the current image, its location_info known.
Aggregate(folder, g, dt, info) ==
    LET new    == NewEntry(Filename(processed_files + 1), dt, info, g)
        images == ImagesOf(results, folder)
        i      == existing_entry(images, new.date, new.city)
    IN  IF ~HasPlace(info)
        THEN UNCHANGED <<pc, results, resolved>>
        ELSE IF i # 0 /\ ParseRaises(dt, images[i])
        THEN /\ pc' = "crashed"
             /\ UNCHANGED <<results, resolved>>
        ELSE /\ results' = AddToResults(results, folder, new, dt)
             /\ resolved' = resolved \cup {[folder |-> folder, date_taken |-> dt, entry |-> new]}
             /\ UNCHANGED pc

\* Line 281 with the test failing for every key: each image is looked up.
CacheHit_never(cache, key) == FALSE
\* Line 281: rounded_gps in location_cache.
CacheHit(cache, key) == key \in DOMAIN cache

\* Line 284 calling the resolver with the cache key: get_location(*rounded_gps, ...).
ResolverArguments_rounded(g, rounded_gps) == rounded_gps

\* Line 284: get_location(*gps, ...), the coordinates as read from the image.
ResolverArguments(g, rounded_gps) == g
\* Lines 264-327 for an image whose metadata was read and whose lookup, if
\* any, completed: att is what the resolver does on this image's attempts.
Lookup(folder, g, dt, att) ==
    LET key  == round_coordinates(g[1], g[2], precision)
        hit  == CacheHit(location_cache, key)
        args == ResolverArguments(g, key)
        gl   == get_location(args[1], args[2], geocoder_timeout_count, error_messages, att)
        info == IF hit THEN location_cache[key] ELSE gl.info
    IN  /\ gps' = g
        /\ date_taken' = dt
        /\ location_info' = info
        /\ processed_files' = processed_files + 1
        /\ extracted_exif_count' = extracted_exif_count + 1
        /\ IF hit
           THEN UNCHANGED <<location_cache, geocoder_count, geocoder_timeout_count,
                            error_messages, resolver_calls, get_location_log>>
           ELSE /\ location_cache' = CacheStore(location_cache, key, info)
                /\ geocoder_count' = geocoder_count + 1
                /\ geocoder_timeout_count' = gl.count
                /\ error_messages' = gl.msgs
                /\ resolver_calls' = [resolver_calls EXCEPT ![key] = @ + 1]
                /\ get_location_log' = Append(get_location_log,
                                              [lat |-> args[1], lon |-> args[2], att |-> att,
                                               calls |-> gl.calls, info |-> gl.info])
        /\ assigned' = assigned \cup {<<key, info>>}
        /\ Aggregate(folder, g, dt, info)
        /\ UNCHANGED <<OPENCAGE_API_KEY, strftime_pads_year, geocoder_error_count, exif_error_count,
                       summary_data>>

\* Lines 264-299 for an image without GPS tags: location_info stays None
\* and the image is not aggregated.
NoGps(dt) ==
    /\ gps' = None
    /\ date_taken' = dt
    /\ location_info' = None
    /\ processed_files' = processed_files + 1
    /\ extracted_exif_count' = IF Truthy(dt) THEN extracted_exif_count + 1
                                             ELSE extracted_exif_count
    /\ UNCHANGED <<OPENCAGE_API_KEY, strftime_pads_year, pc, results, location_cache, error_messages,
                   geocoder_count, geocoder_error_count, geocoder_timeout_count,
                   exif_error_count, summary_data, resolver_calls, assigned, resolved,
                   get_location_log>>

\* What the resolver library can do on a cache miss: the attempt patterns,
\* or <<>> for an exception raised by its constructor (possible only
\* without an API key).
LibraryChoices(g) ==
    IF CacheHit(location_cache, round_coordinates(g[1], g[2], precision))
    THEN {Refused}
    ELSE IF OPENCAGE_API_KEY = None THEN {Refused, <<>>} ELSE Attempts

\* One iteration of the for loop (lines 214-327).
ProcessImage ==
    /\ pc = "scan"
    /\ processed_files < MaxImages
    /\ \E readable \in BOOLEAN :
          IF ~readable
          THEN ExifFailure
          ELSE \E folder \in Folders, dt \in DateTimes \cup {None}, g \in Raws \cup {None} :
                  IF g = None
                  THEN NoGps(dt)
                  ELSE \E att \in LibraryChoices(g) :
                          IF att = <<>>
                          THEN GeocoderError(g, dt)
                          ELSE Lookup(folder, g, dt, att)

\* Lines 329-369: the list is exhausted; sort every folder and return.
Finalize ==
    /\ pc = "scan"
    /\ pc' = "scanned"
    /\ results' = SortFolders(results)
    /\ UNCHANGED <<OPENCAGE_API_KEY, strftime_pads_year, location_cache, error_messages, processed_files,
                   geocoder_count, geocoder_error_count, geocoder_timeout_count,
                   extracted_exif_count, exif_error_count, gps, date_taken,
                   location_info, summary_data, resolver_calls, assigned,
                   resolved, get_location_log>>

\* Line 460: summary_data = generate_summary(image_data).
GenerateSummary ==
    /\ pc = "scanned"
    /\ pc' = "done"
    /\ summary_data' = generate_summary(results)
    /\ UNCHANGED <<OPENCAGE_API_KEY, strftime_pads_year, results, location_cache, error_messages,
                   processed_files, geocoder_count, geocoder_error_count,
                   geocoder_timeout_count, extracted_exif_count, exif_error_count,
                   gps, date_taken, location_info, resolver_calls, assigned,
                   resolved, get_location_log>>

\* scan_images.
Next == ProcessImage \/ Finalize

Spec == Init /\ [][Next]_vars

----------------------------------------------------------------------------
(* generate_summary on its own: every finalized output of scan_images with *)
(* at most MaxEntries entries.                                             *)

\* Number of entries in data['folders'].
MaxEntries == 3

\* The entries scan_images builds from the resolver's places and from a
\* place without a country, on either day or without a date.
SummaryEntries ==
    {NewEntry(Filename(1), dt, PlaceAt(raw), raw) :
        dt \in {Day1Early, Day2, None}, raw \in {r \in Raws : HasPlace(PlaceAt(r))}}
    \cup {NewEntry(Filename(1), dt, [city |-> Issy], <<4876, 234>>) :
            dt \in {Day1Early, Day2}}

\* A folder's list as scan_images leaves it: not empty, one entry per
\* (date, city), sorted by (date, time).
FolderLists(n) ==
    UNION {{l \in [1..m -> SummaryEntries] :
               \A i, j \in 1..m :
                   i < j => /\ ~(l[i].date = l[j].date /\ l[i].city = l[j].city)
                            /\ ~DateTimeKeyLess(l[j], l[i])} : m \in 1..n}

SummaryInputs ==
    {<<>>}
    \cup {<<[name |-> f, images |-> l]>> : f \in Folders, l \in FolderLists(MaxEntries)}
    \cup {<<[name |-> d[1], images |-> d[3]], [name |-> d[2], images |-> d[4]]>> :
            d \in {x \in Folders \X Folders \X FolderLists(MaxEntries - 1)
                                 \X FolderLists(MaxEntries - 1) :
                        x[1] # x[2] /\ Len(x[3]) + Len(x[4]) <= MaxEntries}}

InitSummary ==
    /\ OPENCAGE_API_KEY = <<107, 101, 121>>
    /\ strftime_pads_year = FALSE
    /\ pc = "scanned"
    /\ results \in SummaryInputs
    /\ location_cache = <<>>
    /\ error_messages = <<>>
    /\ processed_files = 0
    /\ geocoder_count = 0
    /\ geocoder_error_count = 0
    /\ geocoder_timeout_count = 0
    /\ extracted_exif_count = 0
    /\ exif_error_count = 0
    /\ gps = None
    /\ date_taken = None
    /\ location_info = None
    /\ summary_data = None
    /\ resolver_calls = [k \in Keys |-> 0]
    /\ assigned = {}
    /\ resolved = {}
    /\ get_location_log = <<>>

SpecSummary == InitSummary /\ [][GenerateSummary]_vars

----------------------------------------------------------------------------
(* Properties of the scan.                                                 *)

\* The entries of folder f.
EntriesOf(f) == Range(ImagesOf(results, f))

\* The images aggregated so far into folder f under the key (date, city).
ResolvedAs(f, date, city) ==
    {r \in resolved : r.folder = f /\ r.entry.date = date /\ r.entry.city = city}

\* C1 (I1): in every state of the scan, and after the final sort, a
\* folder's list holds at most one entry per (date, city), 'Unknown'
\* counting as a date and as a city like any other label.
C1_OneEntryPerDateCity ==
    \A k \in 1..Len(results) :
        \A i, j \in 1..Len(results[k].images) :
            (/\ results[k].images[i].date = results[k].images[j].date
             /\ results[k].images[i].city = results[k].images[j].city) => i = j

\* Two images without a date and without a city were aggregated into the
\* same folder, and the folder holds them as one entry.
C1_Witness ==
    \E f \in Folders :
        /\ Cardinality(ResolvedAs(f, Unknown, Unknown)) >= 2
        /\ Cardinality({e \in EntriesOf(f) : e.date = Unknown /\ e.city = Unknown}) = 1

\* C2 (I2, earliest wins): the time of an entry with a date is the earliest
\* capture time among the images aggregated so far into its folder under
\* its date and city, whatever the order they came in.
C2_EarliestWins ==
    \A f \in Folders :
        \A e \in EntriesOf(f) :
            e.date # Unknown =>
                LET earliest == MinDt({r.date_taken : r \in ResolvedAs(f, e.date, e.city)})
                IN  e.date = StrftimeDate(earliest) /\ e.time = StrftimeTime(earliest)

\* An entry was replaced: the second image of the run holds the entry of
\* a key the first image had created.
C2_Witness ==
    \E f \in Folders :
        \E e \in EntriesOf(f) :
            /\ e.date # Unknown
            /\ e.filename = Filename(2)
            /\ \E r \in ResolvedAs(f, e.date, e.city) : r.entry.filename = Filename(1)

\* C3 (I3), as claimed: with the resolver configured, get_location is
\* called at most once per rounded coordinate pair in a run, failed lookups
\* included.
C3_AtMostOneLookupPerKey ==
    OPENCAGE_API_KEY # None => \A k \in Keys : resolver_calls[k] <= 1

\* C4, as claimed: with the resolver configured, the images of one rounded
\* coordinate pair are all given the same components, or all given None.
C4_SameResultPerKey ==
    OPENCAGE_API_KEY # None => \A a, b \in assigned : a[1] = b[1] => a[2] = b[2]

\* C10 (Unknown-safe dedup): an image without a capture time leaves every
\* entry that has a date as it is, and no image ever changes or removes an
\* entry without a date.
C10_UnknownSafe ==
    [][\A f \in Folders :
          \A e \in EntriesOf(f) :
              (\/ e.date = Unknown
               \/ processed_files' = processed_files + 1 /\ date_taken' = None)
              => e \in Range(ImagesOf(results', f))]_vars

\* An image met an entry without a date under its own key: two images
\* without a date were aggregated into one folder under the same city, and
\* the entry is still the first one's.
C10_Witness ==
    \E f \in Folders :
        \E e \in EntriesOf(f) :
            /\ e.date = Unknown
            /\ e.filename = Filename(1)
            /\ \E r \in ResolvedAs(f, Unknown, e.city) : r.entry.filename = Filename(2)

----------------------------------------------------------------------------
(* Properties of generate_summary.                                         *)

\* The entries of all folders that count for the summary.
QualifyingEntries == {e \in Range(AllImages(results)) : Qualifies(e)}

\* The dates on which the entries place `city` of `country`.
VisitDates(country, city) ==
    {e.date : e \in {q \in QualifyingEntries : q.country = country /\ q.city = city}}

\* C5 (summary day count): a city's visits is the number of distinct dates
\* among the entries of all folders with its country and city, entries
\* with an 'Unknown' city, country or date left out; a date found in two
\* folders counts once.
C5_VisitsAreDistinctDates ==
    pc = "done" =>
        \A c \in 1..Len(summary_data) :
            \A i \in 1..Len(summary_data[c].cities) :
                summary_data[c].cities[i].visits =
                    Cardinality(VisitDates(summary_data[c].name,
                                           summary_data[c].cities[i].name))

\* A city found on the same date in two folders and on another date: three
\* entries, two visits.
C5_Witness ==
    /\ pc = "done"
    /\ Len(results) = 2
    /\ \E c \in 1..Len(summary_data) :
          \E i \in 1..Len(summary_data[c].cities) :
              /\ summary_data[c].cities[i].visits = 2
              /\ Cardinality({k \in 1..Len(AllImages(results)) :
                     /\ Qualifies(AllImages(results)[k])
                     /\ AllImages(results)[k].country = summary_data[c].name
                     /\ AllImages(results)[k].city = summary_data[c].cities[i].name}) = 3

\* The dates on which the entries place any city of `country`.
CountryDates(country) ==
    {e.date : e \in {q \in QualifyingEntries : q.country = country}}

\* C6 (country first visit): first_visit_date is a visit date of one of the
\* cities listed under the country, and no visit date of any of its cities
\* is chronologically earlier.
C6_FirstVisitIsEarliest ==
    pc = "done" =>
        \A c \in 1..Len(summary_data) :
            /\ \E i \in 1..Len(summary_data[c].cities) :
                  summary_data[c].first_visit_date \in
                      VisitDates(summary_data[c].name, summary_data[c].cities[i].name)
            /\ \A d \in CountryDates(summary_data[c].name) :
                  ~DtLess(StrptimeDate(d), StrptimeDate(summary_data[c].first_visit_date))

\* A country with two cities, where the city met first in the input was
\* visited later than the other one.
C6_Witness ==
    /\ pc = "done"
    /\ \E c \in 1..Len(summary_data) :
          LET first == CHOOSE k \in 1..Len(AllImages(results)) :
                          /\ Qualifies(AllImages(results)[k])
                          /\ AllImages(results)[k].country = summary_data[c].name
                          /\ \A h \in 1..(k - 1) :
                                ~(/\ Qualifies(AllImages(results)[h])
                                  /\ AllImages(results)[h].country = summary_data[c].name)
          IN  /\ Len(summary_data[c].cities) = 2
              /\ summary_data[c].first_visit_date \notin
                     VisitDates(summary_data[c].name, AllImages(results)[first].city)

\* C7 (city ordering): within a country, of two adjacent cities the first
\* has more visits, or the same visits and the smaller name.
C7_CitiesOrdered ==
    pc = "done" =>
        \A c \in 1..Len(summary_data) :
            \A i \in 1..(Len(summary_data[c].cities) - 1) :
                LET a == summary_data[c].cities[i]
                    b == summary_data[c].cities[i + 1]
                IN  \/ a.visits > b.visits
                    \/ a.visits = b.visits /\ StrLess(a.name, b.name)

\* Position of the first entry of `city` in the input, in iteration order.
FirstSeen(country, city) ==
    CHOOSE k \in 1..Len(AllImages(results)) :
        /\ Qualifies(AllImages(results)[k])
        /\ AllImages(results)[k].country = country
        /\ AllImages(results)[k].city = city
        /\ \A h \in 1..(k - 1) :
              ~(/\ Qualifies(AllImages(results)[h])
                /\ AllImages(results)[h].country = country
                /\ AllImages(results)[h].city = city)

\* Two cities of one country with equal visits, listed against the order
\* the input met them in (the tie-break moved them).
C7_Witness ==
    /\ pc = "done"
    /\ \E c \in 1..Len(summary_data) :
          /\ Len(summary_data[c].cities) = 2
          /\ summary_data[c].cities[1].visits = summary_data[c].cities[2].visits
          /\ FirstSeen(summary_data[c].name, summary_data[c].cities[2].name)
                < FirstSeen(summary_data[c].name, summary_data[c].cities[1].name)

\* C8 (country ordering): of two adjacent countries the first was first
\* visited chronologically earlier, or on the same date and has the smaller
\* name.
C8_CountriesOrdered ==
    pc = "done" =>
        \A c \in 1..(Len(summary_data) - 1) :
            LET a == summary_data[c]
                b == summary_data[c + 1]
            IN  \/ DtLess(StrptimeDate(a.first_visit_date), StrptimeDate(b.first_visit_date))
                \/ /\ a.first_visit_date = b.first_visit_date
                   /\ StrLess(a.name, b.name)

\* Two countries first visited on different dates, the one with the
\* greater name first.
C8_Witness ==
    /\ pc = "done"
    /\ \E c \in 1..(Len(summary_data) - 1) :
          /\ summary_data[c].first_visit_date # summary_data[c + 1].first_visit_date
          /\ StrLess(summary_data[c + 1].name, summary_data[c].name)

\* The rearrangements of a sequence.
PermsOf(s) ==
    {[i \in 1..Len(s) |-> s[p[i]]] : p \in Permutations(1..Len(s))}

\* The folders in any order, the entries of each folder in any order.
Rearranged(folders) ==
    LET lists == UNION {PermsOf(folders[k].images) : k \in 1..Len(folders)}
    IN  UNION {{[k \in 1..Len(fs) |-> [name |-> fs[k].name, images |-> ch[k]]] :
                   ch \in {x \in [1..Len(fs) -> lists] :
                              \A k \in 1..Len(fs) : x[k] \in PermsOf(fs[k].images)}} :
               fs \in PermsOf(folders)}

\* C9 (order independence): generate_summary gives the summary it gave for
\* the folders as they are on every rearrangement of the folders and of the
\* entries inside each folder.
C9_OrderIndependent ==
    pc = "done" =>
        \A d \in Rearranged(results) : generate_summary(d) = summary_data

\* Two folders, and two countries first visited on the same date that the
\* input meets in the order opposite to the summary's.
C9_Witness ==
    /\ pc = "done"
    /\ Len(results) = 2
    /\ \E c \in 1..(Len(summary_data) - 1) :
          /\ summary_data[c].first_visit_date = summary_data[c + 1].first_visit_date
          /\ \E k, h \in 1..Len(AllImages(results)) :
                /\ k < h
                /\ AllImages(results)[k].country = summary_data[c + 1].name
                /\ AllImages(results)[h].country = summary_data[c].name
                /\ \A g \in 1..(h - 1) :
                      AllImages(results)[g].country # summary_data[c].name

-----------------------------------------------------------------------------
(* Properties of the scan, continued.                                      *)

\* The step processes one more image (one iteration of the loop).
ImageStep == processed_files' = processed_files + 1

\* The image of the step has a place with a non-empty city or country.
NamesPlace(info) ==
    /\ info # None
    /\ \/ ("city" \in DOMAIN info /\ info["city"] # <<>>)
       \/ ("country" \in DOMAIN info /\ info["country"] # <<>>)

\* C11: an image without a GPS pair, one whose lookup returned none and one
\* whose place has neither city nor country leave every folder's entry
\* list as it was; a step of the loop that changes the folder lists is the
\* step of an image whose place has a non-empty city or country.
C11_UnresolvedDropped ==
    [][ImageStep =>
          /\ (~NamesPlace(location_info') => results' = results)
          /\ (results' # results =>
                /\ NamesPlace(location_info')
                /\ exif_error_count' = exif_error_count
                /\ geocoder_error_count' = geocoder_error_count)]_vars

\* An image whose place names neither city nor country was processed after
\* an entry had been made, and the entry is all the folder lists hold.
C11_Witness ==
    /\ processed_files = 2
    /\ exif_error_count = 0
    /\ location_info # None
    /\ ~NamesPlace(location_info)
    /\ Len(results) = 1
    /\ Len(results[1].images) = 1

\* The image of the step failed: its metadata could not be read, its
\* lookup raised, or its lookup used up its attempts and returned None.
FailingStep ==
    \/ exif_error_count' # exif_error_count
    \/ geocoder_error_count' # geocoder_error_count
    \/ /\ Len(get_location_log') = Len(get_location_log) + 1
       /\ get_location_log'[Len(get_location_log')].info = None

\* C12: the scan never aborts on a per-image failure. From every state of
\* the loop the next image can be processed and the function can return;
\* every step of the loop counts exactly one more processed image and
\* stays in the loop, the return counts none; the step of a failing image
\* adds to error_messages, lowers no counter and leaves the folder lists
\* and the cache as they were.
C12_NeverAborts ==
    [][pc = "scan" =>
          /\ pc' \in {"scan", "scanned"}
          /\ ENABLED Finalize
          /\ (processed_files < MaxImages => ENABLED ProcessImage)
          /\ (pc' = "scan" => ImageStep)
          /\ (pc' = "scanned" => processed_files' = processed_files)
          /\ (FailingStep =>
                /\ ImageStep
                /\ Len(error_messages') > Len(error_messages)
                /\ SubSeq(error_messages', 1, Len(error_messages)) = error_messages
                /\ exif_error_count' >= exif_error_count
                /\ geocoder_error_count' >= geocoder_error_count
                /\ geocoder_timeout_count' >= geocoder_timeout_count
                /\ results' = results
                /\ location_cache' = location_cache)]_vars

\* C13: without an API key the run fails before the first lookup: no
\* resolver lookup is attempted and no image is recorded as a geocoder
\* error or as a failed attempt.
C13_MissingKeyIsFatal ==
    OPENCAGE_API_KEY = None =>
        /\ \A k \in Keys : resolver_calls[k] = 0
        /\ get_location_log = <<>>
        /\ geocoder_error_count = 0
        /\ geocoder_timeout_count = 0

\* The attempts of a pattern that yield a non-empty result.
Yielding(att) == {i \in 1..retries : att[i] = "ok"}

\* C14: a get_location call that returns has made at least one and at most
\* `retries` reverse_geocode calls; if some attempt yields a non-empty
\* result it made exactly the calls up to the first such attempt and
\* returned that result's components; it returned None only after `retries`
\* calls none of which yielded a result.
C14_BoundedRetry ==
    \A n \in 1..Len(get_location_log) :
        LET c == get_location_log[n]
        IN  /\ c.calls \in 1..retries
            /\ IF Yielding(c.att) = {}
               THEN c.info = None /\ c.calls = retries
               ELSE /\ c.calls \in Yielding(c.att)
                    /\ \A i \in Yielding(c.att) : c.calls <= i
                    /\ c.info = PlaceAt(<<c.lat, c.lon>>)
                    /\ c.info # None

\* One call returned a place from its second attempt after an exception on
\* the first, another returned None after three attempts.
C14_Witness ==
    /\ Len(get_location_log) = 2
    /\ \E n \in 1..2 :
          /\ get_location_log[n].att[1] = "exc"
          /\ get_location_log[n].att[2] = "ok"
          /\ get_location_log[n].calls = 2
          /\ get_location_log[n].info # None
    /\ \E n \in 1..2 :
          /\ get_location_log[n].info = None
          /\ get_location_log[n].calls = retries

-----------------------------------------------------------------------------
(* Properties of the summary, continued.                                   *)

\* The countries of the entries whose city, country and date are all known.
KnownCountries ==
    {e.country : e \in {x \in Range(AllImages(results)) :
                            x.city # Unknown /\ x.country # Unknown /\ x.date # Unknown}}

\* C15: no country of the summary is named 'Unknown' or has an empty city
\* list, no city is named 'Unknown' or has fewer than one visit, and the
\* countries listed are exactly those with an entry whose city, country
\* and date are all known.
C15_NoUnknownInSummary ==
    pc = "done" =>
        /\ \A i \in 1..Len(summary_data) :
              LET c == summary_data[i]
              IN  /\ c.name # Unknown
                  /\ Len(c.cities) >= 1
                  /\ \A j \in 1..Len(c.cities) :
                        c.cities[j].name # Unknown /\ c.cities[j].visits >= 1
        /\ {summary_data[i].name : i \in 1..Len(summary_data)}
              = KnownCountries

\* The folders hold an entry without a country and an entry of a country
\* none of whose entries has all three values, and the summary lists the
\* one other country.
C15_Witness ==
    /\ pc = "done"
    /\ Len(summary_data) = 1
    /\ \E e \in Range(AllImages(results)) : e.country = Unknown
    /\ \E e \in Range(AllImages(results)) :
          e.country # Unknown /\ e.country \notin KnownCountries

-----------------------------------------------------------------------------
(* Properties of the scan's result.                                        *)

\* Entry a may stand before entry b in a list ascending by (date, time).
InOrder(a, b) ==
    \/ StrLess(a.date, b.date)
    \/ a.date = b.date /\ ~StrLess(b.time, a.time)

\* The number of positions of list l that hold entry e.
CountIn(l, e) == Cardinality({i \in 1..Len(l) : l[i] = e})

\* C16: the step on which scan_images returns leaves the folders and their
\* order as they were, and every folder's list with exactly the entries
\* it held, ascending by (date, time) compared as strings, the entries
\* dated 'Unknown' after all the others.
C16_FinalOrder ==
    [][pc = "scan" /\ pc' = "scanned" =>
          /\ Len(results') = Len(results)
          /\ \A k \in 1..Len(results) :
                LET old == results[k].images
                    new == results'[k].images
                IN  /\ results'[k].name = results[k].name
                    /\ Len(new) = Len(old)
                    /\ \A e \in Range(old) \cup Range(new) : CountIn(new, e) = CountIn(old, e)
                    /\ \A i, j \in 1..Len(new) :
                          i < j => /\ InOrder(new[i], new[j])
                                   /\ (new[i].date = Unknown => new[j].date = Unknown)]_vars

\* scan_images returned a folder whose undated entry, made for the first
\* image, stands after the dated entry made for the second.
C16_Witness ==
    /\ pc = "scanned"
    /\ \E k \in 1..Len(results) :
          /\ Len(results[k].images) = 2
          /\ results[k].images[1].filename = Filename(2)
          /\ results[k].images[1].date # Unknown
          /\ results[k].images[2].filename = Filename(1)
          /\ results[k].images[2].date = Unknown

\* The (date, city) keys of a list of entries.
KeysOf(l) == {<<l[i].date, l[i].city>> : i \in 1..Len(l)}

\* C17: no step of the run deletes an entry. A folder's set of (date, city)
\* keys only grows, by at most one key per image and with one more entry
\* for the new key, every key having exactly one entry; during the loop an entry keeps its position and its
\* key, so a replacement rewrites the entry in place without changing the
\* number of entries.
C17_EntriesNeverDeleted ==
    [][\A f \in Folders :
          LET old == ImagesOf(results, f)
              new == ImagesOf(results', f)
          IN  /\ KeysOf(old) \subseteq KeysOf(new)
              /\ Len(new) = Cardinality(KeysOf(new))
              /\ Len(new) >= Len(old)
              /\ Len(new) - Len(old) = Cardinality(KeysOf(new) \ KeysOf(old))
              /\ Len(new) - Len(old) <= 1
              /\ (pc' = "scan" =>
                    \A i \in 1..Len(old) :
                        /\ new[i].date = old[i].date
                        /\ new[i].city = old[i].city
                        /\ (new[i] # old[i] => Len(new) = Len(old)))]_vars

\* A folder whose one entry was replaced where it stood: two images with
\* the same key, one entry, made for the second image.
C17_Witness ==
    /\ processed_files = 2
    /\ \E f \in Folders :
          /\ Len(ImagesOf(results, f)) = 1
          /\ ImagesOf(results, f)[1].filename = Filename(2)
          /\ Cardinality({r \in resolved : r.folder = f}) = 2

-----------------------------------------------------------------------------
(* Properties of the lookups.                                              *)

\* The step reads the metadata of an image with GPS whose rounded key is
\* in the cache.
CachedKeyStep ==
    /\ ImageStep
    /\ extracted_exif_count' = extracted_exif_count + 1
    /\ gps' # None
    /\ round_coordinates(gps'[1], gps'[2], precision) \in DOMAIN location_cache

\* C18: an image whose rounded key is already in location_cache is given
\* the value stored under the key; get_location is not called, so the
\* counters geocoder_count, geocoder_timeout_count and geocoder_error_count,
\* the error list and the cache are as before the image.
C18_HitSkipsResolver ==
    [][CachedKeyStep =>
          /\ location_info' =
                location_cache[round_coordinates(gps'[1], gps'[2], precision)]
          /\ get_location_log' = get_location_log
          /\ resolver_calls' = resolver_calls
          /\ geocoder_count' = geocoder_count
          /\ geocoder_timeout_count' = geocoder_timeout_count
          /\ geocoder_error_count' = geocoder_error_count
          /\ error_messages' = error_messages
          /\ location_cache' = location_cache]_vars

\* Two images at different coordinates of one cell: the first was looked
\* up, the second was given the cached place.
C18_Witness ==
    /\ processed_files = 2
    /\ extracted_exif_count = 2
    /\ Len(get_location_log) = 1
    /\ geocoder_count = 1
    /\ gps # None
    /\ gps # <<get_location_log[1].lat, get_location_log[1].lon>>
    /\ round_coordinates(gps[1], gps[2], precision)
          = round_coordinates(get_location_log[1].lat, get_location_log[1].lon, precision)
    /\ location_info = get_location_log[1].info
    /\ location_info # None

\* The reverse_geocode calls of the returned get_location calls that raised.
RaisedAttempts ==
    Cardinality({c \in (1..Len(get_location_log)) \X (1..retries) :
                    /\ c[2] <= get_location_log[c[1]].calls
                    /\ get_location_log[c[1]].att[c[2]] = "exc"})

\* The get_location calls that returned None.
NoneReturns ==
    Cardinality({n \in 1..Len(get_location_log) : get_location_log[n].info = None})

\* The recorded messages of one kind.
MessagesOf(kind) ==
    Cardinality({i \in 1..Len(error_messages) : error_messages[i].kind = kind})

\* C19: at every step of a run geocoder_timeout_count is the number of
\* reverse_geocode calls that raised and the number of per-attempt
\* messages; a get_location call that returns None adds exactly one
\* terminal message and a call that returns a place adds none, so the
\* terminal messages number the calls that returned None; the counter
\* never decreases.
C19_RetryAccounting ==
    [][/\ geocoder_timeout_count' = RaisedAttempts'
       /\ geocoder_timeout_count' = MessagesOf("attempt")'
       /\ MessagesOf("terminal")' = NoneReturns'
       /\ MessagesOf("terminal")' - MessagesOf("terminal") = NoneReturns' - NoneReturns
       /\ geocoder_timeout_count' >= geocoder_timeout_count]_vars

\* One call returned None after an exception and an empty result, another
\* returned a place after an exception.
C19_Witness ==
    /\ \E n \in 1..Len(get_location_log) :
          /\ get_location_log[n].info = None
          /\ get_location_log[n].att[1] = "exc"
          /\ get_location_log[n].att[2] = "empty"
    /\ \E n \in 1..Len(get_location_log) :
          /\ get_location_log[n].info # None
          /\ get_location_log[n].att[1] = "exc"
    /\ geocoder_timeout_count >= 2
    /\ MessagesOf("terminal") = 1

-----------------------------------------------------------------------------
(* The summary of a scan and the deduplication.                            *)

\* A set of entries as a list, in some order.
RECURSIVE ListOf(_)
ListOf(S) ==
    IF S = {} THEN <<>>
    ELSE LET x == CHOOSE y \in S : TRUE
         IN  <<x>> \o ListOf(S \ {x})

\* The folders of the result, each with the entries of all its images that
\* resolved to a place with a city or a country, none left out by the
\* (date, city) deduplication.
Undeduplicated ==
    [k \in 1..Len(results) |->
        [name   |-> results[k].name,
         images |-> ListOf({r.entry : r \in {x \in resolved : x.folder = results[k].name}})]]

\* Every date of an aggregated image can be read back by line 112, so that
\* generate_summary returns a summary.
DatesParse ==
    \A r \in resolved : r.entry.date # Unknown => StrptimeDate(r.entry.date) # None

\* C20: when scan_images has returned, the summary of its per-folder
\* entries is the summary of the entries of all images that resolved to a
\* place, two images of one folder with the same date and city name but
\* different countries included.
C20_DedupKeepsSummary ==
    (pc = "scanned" /\ DatesParse) =>
        generate_summary(results) = generate_summary(Undeduplicated)

\* The returned get_location calls with a non-empty place for coordinates
\* of the cell `key`, as positions of the log.
SuccessesOf(key) ==
    {n \in 1..Len(get_location_log) :
        /\ get_location_log[n].info # None
        /\ round_coordinates(get_location_log[n].lat, get_location_log[n].lon, precision)
              = key}

\* C21: get_location is called with the coordinates read from the image,
\* not the rounded ones, and gives the image the place of those
\* coordinates; a cell has at most one successful lookup, and an image
\* whose cell is in the cache is given the place found for the coordinates
\* of the image of that lookup, whatever its own coordinates are.
C21_FirstLookupDecides ==
    [][/\ (Len(get_location_log') = Len(get_location_log) + 1 =>
             LET c == get_location_log'[Len(get_location_log')]
             IN  /\ <<c.lat, c.lon>> = gps'
                 /\ location_info' = c.info
                 /\ (c.info # None => c.info = PlaceAt(gps')))
       /\ \A k \in Keys : Cardinality(SuccessesOf(k)') <= 1
       /\ (CachedKeyStep =>
             LET key == round_coordinates(gps'[1], gps'[2], precision)
             IN  /\ SuccessesOf(key) # {}
                 /\ \A n \in SuccessesOf(key) :
                       location_info' = PlaceAt(<<get_location_log[n].lat,
                                                  get_location_log[n].lon>>))]_vars

\* The second image of a cell was given the place of the first image's
\* coordinates, which is not the place of its own.
C21_Witness ==
    /\ processed_files = 2
    /\ extracted_exif_count = 2
    /\ Len(get_location_log) = 1
    /\ gps # None
    /\ location_info # None
    /\ location_info # PlaceAt(gps)
    /\ location_info = PlaceAt(<<get_location_log[1].lat, get_location_log[1].lon>>)

-----------------------------------------------------------------------------
(* Dates and times of the entries.                                         *)

\* The string t parses as '%H:%M:%S'.
TimeParses(t) == StrptimeDateTime(<<50, 48, 48, 48, 45, 48, 49, 45, 48, 49>>, t) # None

\* C22: in every state of the scan every entry has the date 'Unknown'
\* exactly when it has the time 'Unknown', and the time of an entry with
\* a real date parses as '%H:%M:%S'; so the comparison of line 310, made
\* only on an entry whose date is not 'Unknown', never finds an 'Unknown'
\* or otherwise unparsable time.
C22_DateAndTimeTogether ==
    \A f \in Folders :
        \A e \in EntriesOf(f) :
            /\ (e.date = Unknown <=> e.time = Unknown)
            /\ (e.date # Unknown => e.time # Unknown /\ TimeParses(e.time))

\* Two dated images of one folder with the same date and city: line 310
\* was evaluated for the second against the entry of the first.
C22_Witness ==
    /\ pc = "scan"
    /\ \E r, s \in resolved :
          /\ r # s
          /\ r.folder = s.folder
          /\ r.entry.city = s.entry.city
          /\ r.entry.date = s.entry.date
          /\ r.entry.date # Unknown
          /\ r.date_taken # None /\ s.date_taken # None

====
